---- MODULE Spec2Model ----
(***************************************************************************)
(* Model of the BarangayLink frontend API client                           *)
(* (src/frontend/src/services/api.js): the axios instance with its request *)
(* and response interceptors (token attachment, 401 -> refresh -> retry)   *)
(* and the AuthProvider session holder (initializeAuth, login, register,   *)
(* logout) that sends its calls through that instance.                     *)
(*                                                                         *)
(* One action is one JavaScript task: a user-triggered operation up to its *)
(* first await, or the arrival of a network response together with the     *)
(* interceptor and the continuation of the awaiting operation (these run   *)
(* as microtasks of the same task and cannot be interleaved).              *)
(***************************************************************************)
EXTENDS Integers, Sequences, FiniteSets, TLC

\* ---------------------------------------------------------------- bounds
\* number of calls issued through the client in one behaviour
MaxCalls == 2
\* number of token pairs the server issues in one behaviour
MaxIssued == 1
\* length of the arrays of roles passed to hasAnyRole
MaxRoleList == 2
\* number of items in the data array of a paginated response
MaxItems == 2
\* size of an uploaded file, in chunks
MaxChunks == 2
\* number of runs of the backup script
MaxRuns == 5
\* number of socket events the Dashboard receives
MaxEvents == 12

\* ---------------------------------------------------------------- values
\* null / undefined / absent localStorage key
NULL == <<"null", 0>>

\* users the server knows; role is one of the four roles of the application
Users == { <<"user", 1, "ADMIN">>, <<"user", 2, "MEMBER">> }

\* the user a previous page load left in localStorage
StoredUser == <<"user", 1, "ADMIN">>

\* access and refresh tokens; generation 0 is what a previous page load left
AccessToken(n) == <<"access", n>>
RefreshTokenValue(n) == <<"refresh", n>>

\* `Bearer ${token}`
Bearer(t) == <<"Bearer", t>>

\* JSON.stringify(userData) / JSON.parse(storedUser)
JSONstringify(u) == <<"json", u>>
JSONparse(s) == s[2]

\* error statuses the response interceptor distinguishes, and the two
\* errors without a response (no response from server, 30 s timeout)
Statuses == {400, 401, 403, 404, 429, 500}
NoResponse == {<<"network", 0>>, <<"timeout", 0>>}
Errors == {<<"status", n>> : n \in Statuses} \cup NoResponse

\* error.response?.status
StatusOf(e) == IF e[1] = "status" THEN e[2] ELSE 0

\* the error a rejected call carries, as far as a caller can tell them
\* apart: an authorization failure, another error status, no response
ErrorKind(e) ==
    CASE StatusOf(e) = 401  -> <<"error", "AuthExpired">>
      [] e[1] = "status"    -> <<"error", "status">>
      [] OTHER              -> <<"error", "noResponse">>

\* the error of a failed refresh request (refreshError)
RefreshErrorKind == <<"error", "refreshError">>

CallIds == 1..MaxCalls

VARIABLES
    storage,      \* localStorage: keys token, refreshToken, user
    defaultAuth,  \* api.defaults.headers.common['Authorization']
    user,         \* AuthProvider state: user
    token,        \* AuthProvider state: token
    loading,      \* AuthProvider state: loading
    href,         \* current location (window.location / navigate)
    reload,       \* a document navigation (window.location.href = ...) is pending
    initPc,       \* position of the initializeAuth effect: "start" | "run" | "done"
    calls,        \* the calls sent through the client, by id
    started,      \* number of calls sent so far
    issued,       \* number of token pairs the server has issued so far
    last,         \* what the last step did (history, for stating the properties)
    progress,     \* uploadFile: what the onUploadProgress callback was called with
    notifications,\* Dashboard state: the notification list
    received,     \* number of socket events the Dashboard has received
    backups,      \* backup script: the files of ./backups
    clock         \* backup script: the time of the last run (date)

vars == <<storage, defaultAuth, user, token, loading, href, reload, initPc,
          calls, started, issued, last,
          progress, notifications, received, backups, clock>>

\* the state outside the session: the caller's upload callback, the
\* Dashboard's list, the backup directory
rest == <<progress, notifications, received, backups, clock>>

RestInit ==
    /\ progress = <<>>
    /\ notifications = <<>>
    /\ received = 0
    /\ backups = {}
    /\ clock = 0

\* the part of the state the operations' continuations read and write
World == [storage |-> storage, defaultAuth |-> defaultAuth, user |-> user,
          token |-> token, loading |-> loading, href |-> href, reload |-> reload]

SetWorld(w) ==
    /\ storage' = w.storage
    /\ defaultAuth' = w.defaultAuth
    /\ user' = w.user
    /\ token' = w.token
    /\ loading' = w.loading
    /\ href' = w.href
    /\ reload' = w.reload

\* a call slot that is unused, or whose call has settled or was dropped
Blank(pc) == [pc |-> pc, kind |-> "request", retry |-> FALSE, auth |-> NULL,
              sends |-> 0, refreshes |-> 0, first |-> NULL, hadRT |-> FALSE,
              rt |-> NULL, refreshed |-> "none",
              capToken |-> NULL, capUser |-> NULL]

\* the data of a response: what the handlers read from response.data
NoData == [token |-> NULL, refreshToken |-> NULL, user |-> NULL]

NoEvent == [ev |-> "none", call |-> 0, kind |-> "request", outcome |-> "none",
            error |-> NULL, result |-> "none", sends |-> 0, refreshes |-> 0,
            first |-> NULL, hadRT |-> FALSE, refreshed |-> "none",
            auth |-> NULL, data |-> NoData, args |-> NULL, ret |-> NULL]

\* ------------------------------------------------- request interceptor
\* a request that only carries the header of the instance defaults
RequestInterceptorDefaultsOnly(st, hdr) ==
    hdr

\* api.interceptors.request.use: the token of localStorage, when there is
\* one, overwrites the Authorization header of the request config (hdr is
\* the header the config has after merging the instance defaults)
RequestInterceptor(st, hdr) ==
    IF st.token # NULL THEN Bearer(st.token) ELSE hdr

\* navigate(path) of react-router: changes the location without a reload;
\* a pending document navigation keeps its target
Navigate(w, path) ==
    IF w.reload THEN w ELSE [w EXCEPT !.href = path]

\* ------------------------------------------- response interceptor, 401
\* a refresh branch without the _retry guard
EntersRefreshBranchUnmarked(e, call) ==
    StatusOf(e) = 401

\* a refresh branch that is also entered for 403
EntersRefreshBranchForbidden(e, call) ==
    StatusOf(e) \in {401, 403} /\ ~call.retry

\* _retry guard: the refresh branch is entered for a 401 of a request that
\* has not been marked yet
EntersRefreshBranch(e, call) ==
    StatusOf(e) = 401 /\ ~call.retry

\* a refresh branch that does not look for a stored refreshToken
HasRefreshTokenAlways(st) ==
    TRUE

\* inside the branch: a refresh request is sent only with a stored
\* refreshToken
HasRefreshToken(st) ==
    st.refreshToken # NULL

\* a refresh that stores the new access token and drops the new refreshToken
RefreshSuccessTokenOnly(w, data) ==
    [w EXCEPT !.storage = [@ EXCEPT !.token = data.token],
              !.defaultAuth = Bearer(data.token)]

\* the refresh response arrived: tokens written to localStorage, default
\* header updated
RefreshSuccess(w, data) ==
    [w EXCEPT !.storage = [@ EXCEPT !.token = data.token,
                                    !.refreshToken = data.refreshToken],
              !.defaultAuth = Bearer(data.token)]

\* header of the re-sent request: originalRequest.headers.Authorization is
\* set to the new token, then api(originalRequest) runs the request
\* interceptor again
RetryHeader(w, data) ==
    RequestInterceptor(w.storage, Bearer(data.token))

\* a catch that leaves the user key in localStorage
RefreshFailureKeepsUser(w) ==
    [w EXCEPT !.storage = [@ EXCEPT !.token = NULL, !.refreshToken = NULL],
              !.href = "/login",
              !.reload = TRUE]

\* catch (refreshError): the three keys are removed and the page is sent
\* to /login by a document navigation
RefreshFailure(w) ==
    [w EXCEPT !.storage = [token |-> NULL, refreshToken |-> NULL, user |-> NULL],
              !.href = "/login",
              !.reload = TRUE]

\* ------------------------------------------- AuthProvider continuations
\* a restore that sets the token and leaves the user out
VerifyResolvedNoUser(w, call) ==
    [w EXCEPT !.token = call.capToken,
              !.loading = FALSE]

\* initializeAuth after await api.get('/auth/verify')
VerifyResolved(w, call) ==
    [w EXCEPT !.token = call.capToken,
              !.user = JSONparse(call.capUser),
              !.loading = FALSE]

\* initializeAuth, catch: token and user removed, default header deleted
VerifyRejected(w) ==
    [w EXCEPT !.storage = [@ EXCEPT !.token = NULL, !.user = NULL],
              !.defaultAuth = NULL,
              !.loading = FALSE]

\* a session store that forgets the default Authorization header
StoreSessionNoHeader(w, data) ==
    [w EXCEPT !.storage = [@ EXCEPT !.token = data.token,
                                    !.user = JSONstringify(data.user)],
              !.token = data.token,
              !.user = data.user]

\* the session login and register store from a response
StoreSession(w, data) ==
    [w EXCEPT !.storage = [@ EXCEPT !.token = data.token,
                                    !.user = JSONstringify(data.user)],
              !.defaultAuth = Bearer(data.token),
              !.token = data.token,
              !.user = data.user]

\* login after await api.post('/auth/login'), with its finally
LoginResolved(w, data) ==
    [Navigate(StoreSession(w, data), "/dashboard") EXCEPT !.loading = FALSE]

\* a login whose failure path leaves the flag as it is
LoginRejectedKeepsLoading(w) ==
    w

\* login, catch and finally
LoginRejected(w) ==
    [w EXCEPT !.loading = FALSE]

\* register after await api.post('/auth/register'), with its finally
RegisterResolved(w, data) ==
    IF data.token # NULL
    THEN [Navigate(StoreSession(w, data), "/dashboard") EXCEPT !.loading = FALSE]
    ELSE [Navigate(w, "/login") EXCEPT !.loading = FALSE]

RegisterRejected(w) ==
    [w EXCEPT !.loading = FALSE]

\* logout, finally: runs whether the POST resolved or rejected
LogoutFinally(w) ==
    Navigate([w EXCEPT !.storage = [@ EXCEPT !.token = NULL, !.user = NULL],
                       !.defaultAuth = NULL,
                       !.token = NULL,
                       !.user = NULL],
             "/login")

\* refreshToken of the holder after await api.post('/auth/refresh-token')
RefreshTokenResolved(w, data) ==
    [w EXCEPT !.storage = [@ EXCEPT !.token = data.token],
              !.defaultAuth = Bearer(data.token),
              !.token = data.token]

\* continuation of the operation that awaits the call, by outcome
\* (a rejected refreshToken changes no state itself: it calls logout(),
\* which it does not await, and throws)
Resolved(w, call, data) ==
    CASE call.kind = "verify"       -> VerifyResolved(w, call)
      [] call.kind = "login"        -> LoginResolved(w, data)
      [] call.kind = "register"     -> RegisterResolved(w, data)
      [] call.kind = "logout"       -> LogoutFinally(w)
      [] call.kind = "refreshToken" -> RefreshTokenResolved(w, data)
      [] OTHER                      -> w

\* a logout whose cleanup runs only when the POST succeeded
RejectedLogoutSkipsCleanup(w, call) ==
    CASE call.kind = "verify"   -> VerifyRejected(w)
      [] call.kind = "login"    -> LoginRejected(w)
      [] call.kind = "register" -> RegisterRejected(w)
      [] OTHER                  -> w

Rejected(w, call) ==
    CASE call.kind = "verify"   -> VerifyRejected(w)
      [] call.kind = "login"    -> LoginRejected(w)
      [] call.kind = "register" -> RegisterRejected(w)
      [] call.kind = "logout"   -> LogoutFinally(w)
      [] OTHER                  -> w

\* what the operation hands to its caller
Result(kind, outcome) ==
    CASE kind \in {"login", "register"} ->
             IF outcome = "resolved" THEN "success" ELSE "failure"
      [] kind = "logout" -> "resolved"
      [] kind = "verify" -> "silent"
      [] OTHER -> outcome

\* ------------------------------------------------------------ the calls
InFlight(c) == calls[c].pc \in {"sent", "refreshing"}

\* api(config) for a new call: defaults merged, request interceptor run
NewCall(kind, capToken, capUser) ==
    [pc |-> "sent", kind |-> kind, retry |-> FALSE,
     auth |-> RequestInterceptor(storage, defaultAuth),
     sends |-> 1, refreshes |-> 0, first |-> NULL, hadRT |-> FALSE,
     rt |-> NULL, refreshed |-> "none",
     capToken |-> capToken, capUser |-> capUser]

SendEvent(c, call) ==
    [NoEvent EXCEPT !.ev = "send", !.call = c, !.kind = call.kind,
                    !.sends = call.sends, !.auth = call.auth]

\* the call settles: its promise resolves or rejects and the awaiting
\* operation continues
SettleEvent(c, call, outcome, e, data) ==
    [NoEvent EXCEPT !.ev = "settle", !.call = c, !.kind = call.kind,
                    !.outcome = outcome, !.error = e,
                    !.result = Result(call.kind, outcome),
                    !.sends = call.sends, !.refreshes = call.refreshes,
                    !.first = call.first, !.hadRT = call.hadRT,
                    !.refreshed = call.refreshed,
                    !.auth = call.auth, !.data = data]

\* the POST /auth/logout of the logout() that a rejected refreshToken
\* starts; it takes the place of the settled call
LogoutAfterRefreshToken(w) ==
    [pc |-> "sent", kind |-> "logout", retry |-> FALSE,
     auth |-> RequestInterceptor(w.storage, w.defaultAuth),
     sends |-> 1, refreshes |-> 0, first |-> NULL, hadRT |-> FALSE,
     rt |-> NULL, refreshed |-> "none",
     capToken |-> NULL, capUser |-> NULL]

Settle(c, call, w, outcome, e, data) ==
    /\ SetWorld(IF outcome = "resolved" THEN Resolved(w, call, data)
                                         ELSE Rejected(w, call))
    /\ calls' = [calls EXCEPT ![c] =
                   IF call.kind = "refreshToken" /\ outcome = "rejected"
                   THEN LogoutAfterRefreshToken(w)
                   ELSE Blank("done")]
    /\ initPc' = IF call.kind = "verify" THEN "done" ELSE initPc
    /\ last' = SettleEvent(c, call, outcome, e, data)
    /\ UNCHANGED rest

\* ------------------------------------------------------------ Init
\* localStorage survives page loads: any combination of the three keys
\* may be there when the page is constructed
InitialStorage ==
    [token : {NULL, AccessToken(0)},
     refreshToken : {NULL, RefreshTokenValue(0)},
     user : {NULL, JSONstringify(StoredUser)}]

Init ==
    /\ storage \in InitialStorage
    /\ defaultAuth = NULL
    /\ user = NULL
    /\ token = storage.token
    /\ loading = TRUE
    /\ href = "/"
    /\ reload = FALSE
    /\ initPc = "start"
    /\ calls = [c \in CallIds |-> Blank("unused")]
    /\ started = 0
    /\ issued = 0
    /\ last = NoEvent
    /\ RestInit

\* --------------------------------------------------------- operations
\* initializeAuth up to await api.get('/auth/verify'), or to its end when
\* token or user is missing from localStorage
InitializeAuth ==
    /\ initPc = "start"
    /\ UNCHANGED rest
    /\ IF storage.token # NULL /\ storage.user # NULL
       THEN /\ started < MaxCalls
            /\ defaultAuth' = Bearer(storage.token)
            /\ LET call == [NewCall("verify", storage.token, storage.user)
                              EXCEPT !.auth = RequestInterceptor(storage, Bearer(storage.token))]
               IN /\ calls' = [calls EXCEPT ![started + 1] = call]
                  /\ last' = SendEvent(started + 1, call)
            /\ started' = started + 1
            /\ initPc' = "verifying"
            /\ UNCHANGED <<storage, user, token, loading, href, reload, issued>>
       ELSE /\ loading' = FALSE
            /\ initPc' = "done"
            /\ last' = [NoEvent EXCEPT !.ev = "init"]
            /\ UNCHANGED <<storage, defaultAuth, user, token, href, reload,
                           calls, started, issued>>

\* an operation sends its call through the client
StartCall(kind) ==
    /\ initPc # "start"
    /\ started < MaxCalls
    /\ LET call == NewCall(kind, NULL, NULL)
       IN /\ calls' = [calls EXCEPT ![started + 1] = call]
          /\ last' = SendEvent(started + 1, call)
    /\ started' = started + 1
    /\ UNCHANGED rest

\* login / register: setLoading(true), then the POST
Login ==
    /\ StartCall("login")
    /\ loading' = TRUE
    /\ UNCHANGED <<storage, defaultAuth, user, token, href, reload, initPc, issued>>

Register ==
    /\ StartCall("register")
    /\ loading' = TRUE
    /\ UNCHANGED <<storage, defaultAuth, user, token, href, reload, initPc, issued>>

\* logout: the POST /auth/logout
Logout ==
    /\ StartCall("logout")
    /\ UNCHANGED <<storage, defaultAuth, user, token, loading, href, reload,
                   initPc, issued>>

\* any call of the domain call groups (requestsAPI.getAll, ...)
Request ==
    /\ StartCall("request")
    /\ UNCHANGED <<storage, defaultAuth, user, token, loading, href, reload,
                   initPc, issued>>

\* ---------------------------------------------------------- responses
\* what a 2xx response carries, by endpoint; tokens are fresh; a register
\* response may come without a token (its user is then not read)
ResponseData(kind) ==
    CASE kind = "login" ->
             {[token |-> AccessToken(issued + 1), refreshToken |-> NULL, user |-> u]
                : u \in Users}
      [] kind = "register" ->
             {[token |-> AccessToken(issued + 1), refreshToken |-> NULL, user |-> u]
                : u \in Users}
             \cup {NoData}
      [] kind = "refreshToken" ->
             {[token |-> AccessToken(issued + 1),
               refreshToken |-> RefreshTokenValue(issued + 1), user |-> NULL]}
      [] OTHER -> {NoData}

\* a 2xx response: the response interceptor passes it on
ResponseOk(c) ==
    /\ calls[c].pc = "sent"
    /\ \E data \in ResponseData(calls[c].kind) :
          /\ data.token # NULL => issued < MaxIssued
          /\ issued' = IF data.token # NULL THEN issued + 1 ELSE issued
          /\ Settle(c, [calls[c] EXCEPT !.first = IF @ = NULL THEN <<"ok", 200>> ELSE @],
                    World, "resolved", NULL, data)
    /\ UNCHANGED started

\* an error status, or no response: the response interceptor's error handler
ResponseError(c, e) ==
    /\ calls[c].pc = "sent"
    /\ LET call == [calls[c] EXCEPT
                       !.first = IF @ = NULL THEN ErrorKind(e) ELSE @,
                       \* history: was a refreshToken stored at the first 401
                       !.hadRT = IF calls[c].first = NULL /\ StatusOf(e) = 401
                                 THEN storage.refreshToken # NULL ELSE @]
       IN IF EntersRefreshBranch(e, call)
          THEN IF HasRefreshToken(storage)
               THEN \* axios.post(.../auth/refresh-token, { refreshToken })
                    /\ calls' = [calls EXCEPT ![c] =
                                   [call EXCEPT !.retry = TRUE, !.pc = "refreshing",
                                                !.refreshes = @ + 1,
                                                !.rt = storage.refreshToken]]
                    /\ last' = [NoEvent EXCEPT !.ev = "refresh", !.call = c,
                                               !.kind = call.kind]
                    /\ UNCHANGED <<storage, defaultAuth, user, token, loading,
                                   href, reload, initPc, rest>>
               ELSE Settle(c, [call EXCEPT !.retry = TRUE], World, "rejected",
                           ErrorKind(e), NoData)
          ELSE Settle(c, call, World, "rejected", ErrorKind(e), NoData)
    /\ UNCHANGED <<started, issued>>

\* the refresh request is answered with a new token pair: tokens stored,
\* original request re-sent
RefreshOk(c) ==
    /\ calls[c].pc = "refreshing"
    /\ issued < MaxIssued
    /\ LET data == [token |-> AccessToken(issued + 1),
                    refreshToken |-> RefreshTokenValue(issued + 1), user |-> NULL]
           w == RefreshSuccess(World, data)
           call == [calls[c] EXCEPT !.pc = "sent", !.sends = @ + 1,
                                    !.refreshed = "ok",
                                    !.auth = RetryHeader(w, data)]
       IN /\ SetWorld(w)
          /\ calls' = [calls EXCEPT ![c] = call]
          /\ last' = [SendEvent(c, call) EXCEPT !.ev = "resend", !.data = data,
                                                !.refreshes = call.refreshes,
                                                !.refreshed = "ok"]
    /\ issued' = issued + 1
    /\ UNCHANGED <<initPc, started, rest>>

\* the refresh request fails (error status or no response)
RefreshError(c) ==
    /\ calls[c].pc = "refreshing"
    /\ Settle(c, [calls[c] EXCEPT !.refreshed = "failed"], RefreshFailure(World),
              "rejected", RefreshErrorKind, NoData)
    /\ UNCHANGED <<started, issued>>

\* the document navigation started by window.location.href takes place:
\* the page is constructed again (module state and AuthProvider state are
\* new, localStorage stays), calls in flight are lost
PageLoad ==
    /\ reload
    /\ defaultAuth' = NULL
    /\ user' = NULL
    /\ token' = storage.token
    /\ loading' = TRUE
    /\ reload' = FALSE
    /\ initPc' = "start"
    /\ calls' = [c \in CallIds |-> IF InFlight(c) THEN Blank("dropped") ELSE calls[c]]
    /\ last' = [NoEvent EXCEPT !.ev = "pageLoad"]
    /\ UNCHANGED <<storage, href, started, issued, rest>>

Next ==
    \/ InitializeAuth
    \/ Login
    \/ Register
    \/ Logout
    \/ Request
    \/ \E c \in CallIds : ResponseOk(c)
    \/ \E c \in CallIds, e \in Errors : ResponseError(c, e)
    \/ \E c \in CallIds : RefreshOk(c)
    \/ \E c \in CallIds : RefreshError(c)
    \/ PageLoad

Spec == Init /\ [][Next]_vars

\* the timeout of the axios instance (timeout: 30000): a request sent
\* through api that is not answered fails with a timeout error after 30 s.
\* The refresh request is sent with axios.post, outside the instance,
\* and has no timer: nothing obliges it to be answered.
Timeout == <<"timeout", 0>>

FairSpec ==
    /\ Spec
    /\ \A c \in CallIds : WF_vars(ResponseError(c, Timeout))

\* refreshToken of the holder: the POST /auth/refresh-token through the client
RefreshTokenOp ==
    /\ StartCall("refreshToken")
    /\ UNCHANGED <<storage, defaultAuth, user, token, loading, href, reload,
                   initPc, issued>>

\* the client together with the holder's own refreshToken operation
HolderNext ==
    \/ Next
    \/ RefreshTokenOp

HolderSpec == Init /\ [][HolderNext]_vars

\* ------------------------------------------------- role predicates
\* the role enumeration of the application
Roles == {"ADMIN", "MODERATOR", "VOLUNTEER", "MEMBER"}

\* user?.role: undefined when there is no user
RoleOf(u) == IF u = NULL THEN "undefined" ELSE u[3]

\* hasRole(role): user?.role === role
hasRole(role) ==
    RoleOf(user) = role

\* an includes that looks at the first element only
hasAnyRoleFirstOnly(roles) ==
    Len(roles) > 0 /\ roles[1] = RoleOf(user)

\* hasAnyRole(roles): roles.includes(user?.role)
hasAnyRole(roles) ==
    \E i \in 1..Len(roles) : roles[i] = RoleOf(user)

\* the arrays of roles a caller passes to hasAnyRole
RoleLists == UNION {[1..n -> Roles] : n \in 0..MaxRoleList}

\* everything but the event record is left alone
SessionUnchanged ==
    UNCHANGED <<storage, defaultAuth, user, token, loading, href, reload,
                initPc, calls, started, issued, rest>>

HasRoleCall ==
    \E role \in Roles :
        /\ last' = [NoEvent EXCEPT !.ev = "hasRole", !.args = <<role>>,
                                   !.ret = hasRole(role)]
        /\ SessionUnchanged

HasAnyRoleCall ==
    \E roles \in RoleLists :
        /\ last' = [NoEvent EXCEPT !.ev = "hasAnyRole", !.args = <<roles>>,
                                   !.ret = hasAnyRole(roles)]
        /\ SessionUnchanged

\* the holder with no session, or with the session of a user of any role
RoleInit ==
    /\ user \in {NULL} \cup {<<"user", 1, r>> : r \in Roles}
    /\ token = IF user = NULL THEN NULL ELSE AccessToken(0)
    /\ storage = [token |-> token, refreshToken |-> NULL,
                  user |-> IF user = NULL THEN NULL ELSE JSONstringify(user)]
    /\ defaultAuth = IF user = NULL THEN NULL ELSE Bearer(token)
    /\ loading = FALSE
    /\ href = "/"
    /\ reload = FALSE
    /\ initPc = "done"
    /\ calls = [c \in CallIds |-> Blank("unused")]
    /\ started = 0
    /\ issued = 0
    /\ last = NoEvent
    /\ RestInit

RoleNext ==
    \/ HasRoleCall
    \/ HasAnyRoleCall

RoleSpec == RoleInit /\ [][RoleNext]_vars

\* ------------------------------------------------- paginated requests
\* JavaScript values of a response body: <<"array", sequence>>,
\* <<"object", record>>, and undefined
Undefined == <<"undefined", 0>>
Array(seq) == <<"array", seq>>
Object(rec) == <<"object", rec>>

\* obj.key: undefined when the object has no such property
Get(v, key) ==
    IF v[1] = "object" /\ key \in DOMAIN v[2] THEN v[2][key] ELSE Undefined

\* a helper that expects list and pagination nested inside data
paginatedRequestNested(body) ==
    Object([data |-> Get(body, "data"),
            pagination |-> Get(Get(body, "data"), "pagination")])

\* paginatedRequest, after await api.get(endpoint, { params }): body is
\* response.data
paginatedRequest(body) ==
    Object([data |-> Get(body, "data"),
            pagination |-> Get(body, "pagination")])

\* the items and the pagination objects an endpoint may answer with
Items == {"r1", "r2"}
ItemLists == UNION {[1..n -> Items] : n \in 0..MaxItems}
Paginations == [page : {1, 2}, limit : {20}, total : {0, 2}, pages : {1}]

\* response bodies {data: [...], pagination: {...}}, with or without the
\* success flag of the envelope
PagedBodies ==
    {Object([data |-> Array(d), pagination |-> Object(pg)])
        : d \in ItemLists, pg \in Paginations}
    \cup {Object([success |-> TRUE, data |-> Array(d), pagination |-> Object(pg)])
        : d \in ItemLists, pg \in Paginations}

PaginatedRequestCall ==
    \E body \in PagedBodies :
        /\ last' = [NoEvent EXCEPT !.ev = "paginatedRequest", !.args = <<body>>,
                                   !.ret = paginatedRequest(body)]
        /\ SessionUnchanged

PaginateNext == PaginatedRequestCall

PaginateSpec == Init /\ [][PaginateNext]_vars

\* the envelope of the mock server's GET /api/requests: the list and the
\* pagination object are nested inside data
NestedBodies ==
    {Object([success |-> TRUE,
             data |-> Object([requests |-> Array(d), pagination |-> Object(pg)])])
        : d \in ItemLists, pg \in Paginations}

\* the bodies the paginated endpoints of the API answer with
EndpointBodies == PagedBodies \cup NestedBodies

\* paginatedRequest called on any paginated endpoint
EndpointRequestCall ==
    \E body \in EndpointBodies :
        /\ last' = [NoEvent EXCEPT !.ev = "paginatedRequest", !.args = <<body>>,
                                   !.ret = paginatedRequest(body)]
        /\ SessionUnchanged

EndpointNext == EndpointRequestCall

EndpointSpec == Init /\ [][EndpointNext]_vars

\* ------------------------------------------------------------ uploads
\* a page with a restored session, as a successful startup leaves it
SignedIn ==
    /\ storage \in [token : {AccessToken(0)},
                     refreshToken : {NULL, RefreshTokenValue(0)},
                     user : {JSONstringify(StoredUser)}]
    /\ defaultAuth = Bearer(AccessToken(0))
    /\ user = StoredUser
    /\ token = AccessToken(0)
    /\ loading = FALSE
    /\ href = "/"
    /\ reload = FALSE
    /\ initPc = "done"
    /\ calls = [c \in CallIds |-> Blank("unused")]
    /\ started = 0
    /\ issued = 0
    /\ last = NoEvent
    /\ RestInit

\* the progress events of call c: what its callback has been called with
ProgressOf(c) == SelectSeq(progress, LAMBDA p : p.call = c)

\* the amount the n-th send of call c has reported so far
Loaded(c, n) ==
    LET sent == {progress[i].loaded : i \in {j \in DOMAIN progress :
                    progress[j].call = c /\ progress[j].send = n}}
    IN IF sent = {} THEN 0 ELSE CHOOSE v \in sent : \A x \in sent : x <= v

\* uploadFile(file, endpoint, onUploadProgress): api.post with the callback
\* in the request config
UploadFile ==
    /\ StartCall("upload")
    /\ UNCHANGED <<storage, defaultAuth, user, token, loading, href, reload,
                   initPc, issued>>

\* the request being sent reports progress: the callback of its config is
\* called with the amount sent so far by this send, which grows
UploadProgress(c) ==
    /\ calls[c].kind = "upload"
    /\ calls[c].pc = "sent"
    /\ \E v \in 1..MaxChunks :
          /\ v > Loaded(c, calls[c].sends)
          /\ progress' = Append(progress,
                                [call |-> c, send |-> calls[c].sends, loaded |-> v])
    /\ last' = [NoEvent EXCEPT !.ev = "progress", !.call = c, !.kind = "upload",
                               !.sends = calls[c].sends]
    /\ UNCHANGED <<storage, defaultAuth, user, token, loading, href, reload,
                   initPc, calls, started, issued,
                   notifications, received, backups, clock>>

\* the server answers 2xx once it has the whole file
UploadResponseOk(c) ==
    /\ calls[c].kind = "upload"
    /\ Loaded(c, calls[c].sends) = MaxChunks
    /\ ResponseOk(c)

\* an error status (a 401 for an expired token among them) or no response
\* can come at any point of the upload
UploadResponseError(c, e) ==
    /\ calls[c].kind = "upload"
    /\ ResponseError(c, e)

UploadNext ==
    \/ UploadFile
    \/ \E c \in CallIds : UploadProgress(c)
    \/ \E c \in CallIds : UploadResponseOk(c)
    \/ \E c \in CallIds, e \in Errors : UploadResponseError(c, e)
    \/ \E c \in CallIds : RefreshOk(c)
    \/ \E c \in CallIds : RefreshError(c)

UploadSpec == SignedIn /\ [][UploadNext]_vars

\* ------------------------------------------------- after a logout
\* the page as a completed logout() leaves it: token and user removed from
\* localStorage and from the holder, default header deleted, location
\* /login; the refreshToken key is whatever it was (logout does not touch
\* it). Generation 0 is what the session that was logged out had.
LoggedOut ==
    /\ storage \in [token : {NULL},
                     refreshToken : {NULL, RefreshTokenValue(0)},
                     user : {NULL}]
    /\ defaultAuth = NULL
    /\ user = NULL
    /\ token = NULL
    /\ loading = FALSE
    /\ href = "/login"
    /\ reload = FALSE
    /\ initPc = "done"
    /\ calls = [c \in CallIds |-> Blank("unused")]
    /\ started = 0
    /\ issued = 0
    /\ last = NoEvent
    /\ RestInit

\* the client from the completion of a logout on
ReloginSpec == LoggedOut /\ [][Next]_vars

\* ------------------------------------- a server that rotates refresh tokens
\* the refresh token the server accepts: the one of the last pair it
\* issued (generation 0 at first); a used one is invalid
ValidRefreshToken == RefreshTokenValue(issued)

\* the server answers a refresh request that carries the valid token
RotatingRefreshOk(c) ==
    /\ calls[c].rt = ValidRefreshToken
    /\ RefreshOk(c)

\* the server refuses a refresh request that carries a used token
RotatingRefreshError(c) ==
    /\ calls[c].rt # ValidRefreshToken
    /\ RefreshError(c)

RotationNext ==
    \/ Request
    \/ \E c \in CallIds : ResponseOk(c)
    \/ \E c \in CallIds, e \in Errors : ResponseError(c, e)
    \/ \E c \in CallIds : RotatingRefreshOk(c)
    \/ \E c \in CallIds : RotatingRefreshError(c)

RotationSpec == SignedIn /\ [][RotationNext]_vars

\* ------------------------------------------------------ backup script
\* the files one run writes into ./backups, in the order it writes them:
\* ${BACKUP_NAME}.sql, _uploads.tar.gz, _logs.tar.gz, _info.txt, .tar.gz
Parts == <<".sql", "_uploads.tar.gz", "_logs.tar.gz", "_info.txt", ".tar.gz">>

\* the file the run of time t writes as its i-th; files are told apart by
\* name, and a later write has a later modification time
BackupFile(t, i) ==
    [name |-> <<t, Parts[i]>>, mtime |-> t * Len(Parts) + i]

\* the temporary files of the run of time t, and its archive
TempFiles(t) == {BackupFile(t, i) : i \in 1..4}
Archive(t) == BackupFile(t, 5)

\* writing a file replaces the file of that name
WriteFiles(dir, new) ==
    {f \in dir : \A g \in new : g.name # f.name} \cup new

\* "${BACKUP_DIR}"/*.tar.gz
TarGz(dir) ==
    {f \in dir : f.name[2] \in {"_uploads.tar.gz", "_logs.tar.gz", ".tar.gz"}}

\* ls -t: newest first
RECURSIVE LsT(_)
LsT(S) ==
    IF S = {} THEN <<>>
    ELSE LET f == CHOOSE x \in S : \A y \in S : y.mtime <= x.mtime
         IN <<f>> \o LsT(S \ {f})

\* ls -tr: oldest first
RECURSIVE LsTr(_)
LsTr(S) ==
    IF S = {} THEN <<>>
    ELSE LET f == CHOOSE x \in S : \A y \in S : x.mtime <= y.mtime
         IN <<f>> \o LsTr(S \ {f})

\* tail -n +8: the lines from the 8th on
TailStart == 8
TailFrom(seq) ==
    {seq[i] : i \in TailStart..Len(seq)}

\* a retention that sorts oldest first and so removes the newest
RetentionOldestFirst(dir) ==
    dir \ TailFrom(LsTr(TarGz(dir)))

\* ls -t "${BACKUP_DIR}"/*.tar.gz | tail -n +8 | xargs -r rm
Retention(dir) ==
    dir \ TailFrom(LsT(TarGz(dir)))

\* a run that reaches its end: dump, uploads, logs and info written, the
\* archive created, the four temporary files removed, old archives removed
BackupRun ==
    /\ clock < MaxRuns
    /\ clock' = clock + 1
    /\ LET t == clock + 1
           written == WriteFiles(backups, TempFiles(t) \cup {Archive(t)})
           cleaned == written \ TempFiles(t)
       IN /\ backups' = Retention(cleaned)
          /\ last' = [NoEvent EXCEPT !.ev = "backup", !.args = <<t>>,
                                     !.ret = cleaned \ Retention(cleaned)]
    /\ UNCHANGED <<storage, defaultAuth, user, token, loading, href, reload,
                   initPc, calls, started, issued,
                   progress, notifications, received>>

\* set -e: pg_dump fails (the database container is down); the redirection
\* has created the .sql file and the script stops there
BackupFailsAtDump ==
    /\ clock < MaxRuns
    /\ clock' = clock + 1
    /\ backups' = WriteFiles(backups, {BackupFile(clock + 1, 1)})
    /\ last' = [NoEvent EXCEPT !.ev = "backupFailed", !.args = <<clock + 1>>]
    /\ UNCHANGED <<storage, defaultAuth, user, token, loading, href, reload,
                   initPc, calls, started, issued,
                   progress, notifications, received>>

\* set -e: the tar that creates the archive fails (.env.example is
\* missing); the temporary files and the incomplete archive stay
BackupFailsAtArchive ==
    /\ clock < MaxRuns
    /\ clock' = clock + 1
    /\ backups' = WriteFiles(backups, TempFiles(clock + 1) \cup {Archive(clock + 1)})
    /\ last' = [NoEvent EXCEPT !.ev = "backupFailed", !.args = <<clock + 1>>]
    /\ UNCHANGED <<storage, defaultAuth, user, token, loading, href, reload,
                   initPc, calls, started, issued,
                   progress, notifications, received>>

\* mkdir -p "${BACKUP_DIR}" of the first run: the directory starts empty
BackupInit == Init

BackupNext ==
    \/ BackupRun
    \/ BackupFailsAtDump
    \/ BackupFailsAtArchive

BackupSpec == BackupInit /\ [][BackupNext]_vars

\* ---------------------------------------------- Dashboard notifications
\* prev.slice(0, 9)
SliceEnd == 9
Slice(prev) ==
    SubSeq(prev, 1, IF Len(prev) < SliceEnd THEN Len(prev) ELSE SliceEnd)

\* a list that keeps ten earlier entries
PrependSliceTen(entry, prev) ==
    <<entry>> \o SubSeq(prev, 1, IF Len(prev) < SliceEnd + 1 THEN Len(prev)
                                                             ELSE SliceEnd + 1)

\* [entry, ...prev.slice(0, 9)]
Prepend(entry, prev) ==
    <<entry>> \o Slice(prev)

\* an entry of the list: what it is and when it arrived (the arrival
\* number stands for the payload, which differs from event to event)
Entry(type, at) == [type |-> type, at |-> at]

DashboardUnchanged ==
    UNCHANGED <<storage, defaultAuth, user, token, loading, href, reload,
                initPc, calls, started, issued, progress, backups, clock>>

\* socket.on('notification', ...)
OnNotification ==
    /\ received < MaxEvents
    /\ received' = received + 1
    /\ notifications' = Prepend(Entry("notification", received + 1), notifications)
    /\ last' = [NoEvent EXCEPT !.ev = "notification"]
    /\ DashboardUnchanged

\* socket.on('new-request', ...): an entry for administrators and
\* moderators only
OnNewRequest ==
    /\ received < MaxEvents
    /\ received' = received + 1
    /\ notifications' =
          IF RoleOf(user) = "ADMIN" \/ RoleOf(user) = "MODERATOR"
          THEN Prepend(Entry("new-request", received + 1), notifications)
          ELSE notifications
    /\ last' = [NoEvent EXCEPT !.ev = "new-request"]
    /\ DashboardUnchanged

\* the Dashboard is behind the protected routes: it is mounted with a user
DashboardInit ==
    /\ RoleInit
    /\ user # NULL

DashboardNext ==
    \/ OnNotification
    \/ OnNewRequest

DashboardSpec == DashboardInit /\ [][DashboardNext]_vars

\* ================================================================ claims
AuthExpired == <<"error", "AuthExpired">>
Settled == last.ev = "settle"
EmptyStorage == [token |-> NULL, refreshToken |-> NULL, user |-> NULL]
\* a login, or a registration whose response carries a token, succeeded
SessionCreated ==
    /\ Settled
    /\ last.kind \in {"login", "register"}
    /\ last.outcome = "resolved"
    /\ last.data.token # NULL

\* C1 (as claimed): every call whose first response is 401 sees exactly one
\* refresh attempt and then exactly one re-send, whatever localStorage holds.
C1_ExactlyOneRefreshAndRetry ==
    (Settled /\ last.first = AuthExpired)
        => (last.refreshes = 1 /\ last.sends = 2)

\* C1 (amended): for a call whose first response is 401, a refresh request
\* is sent exactly when a refreshToken is stored at that moment (one
\* request, otherwise none), and the original call is re-sent exactly when
\* that refresh succeeds (one re-send, otherwise none).
C1_RefreshIffTokenRetryIffRefreshed ==
    (Settled /\ last.first = AuthExpired)
        => /\ last.refreshes = (IF last.hadRT THEN 1 ELSE 0)
           /\ (last.refreshed # "none") <=> last.hadRT
           /\ last.sends = (IF last.refreshed = "ok" THEN 2 ELSE 1)

C1_Witness ==
    /\ Settled
    /\ last.first = AuthExpired
    /\ last.refreshes = 1
    /\ last.sends = 2
    /\ last.outcome = "resolved"

\* C2: one logical call sends at most one refresh request and is sent at
\* most twice; once the _retry marker is set no further refresh is started,
\* so a 401 to the re-sent call settles the call.
C2_AtMostOneRefreshTwoSends ==
    /\ \A c \in CallIds :
          /\ calls[c].refreshes <= 1
          /\ calls[c].sends <= 2
          /\ calls[c].refreshes = 1 => calls[c].retry
          /\ calls[c].pc = "refreshing" => calls[c].sends = 1
    /\ last.refreshes <= 1
    /\ last.sends <= 2
    /\ (Settled /\ last.sends = 2) => last.refreshes = 1

C2_Witness ==
    /\ Settled
    /\ last.sends = 2
    /\ last.refreshes = 1
    /\ last.outcome = "rejected"
    /\ last.error = AuthExpired

\* C3: when the refresh request fails, token, refreshToken and user are
\* removed from localStorage, the page is sent to /login, the suspended
\* call is rejected with the refresh error and is not re-sent.
C3_RefreshFailureClearsAndRedirects ==
    (Settled /\ last.refreshed = "failed")
        => /\ storage = EmptyStorage
           /\ href = "/login"
           /\ reload
           /\ last.outcome = "rejected"
           /\ last.error = RefreshErrorKind
           /\ last.sends = 1

C3_Witness ==
    /\ Settled
    /\ last.refreshed = "failed"
    /\ last.hadRT
    /\ last.kind = "request"

\* C4: when the re-sent call receives 401 again, the caller is logged out:
\* the session is cleared and the page is sent to the unauthenticated state.
C4_SecondUnauthorizedForcesLogout ==
    (Settled /\ last.sends = 2 /\ last.error = AuthExpired)
        => /\ storage = EmptyStorage
           /\ href = "/login"

\* C5: when the refresh succeeds, the stored token and refreshToken are the
\* ones of the refresh response, and the original call is re-sent only
\* after that response, with Authorization: Bearer <new access token>.
C5_RefreshStoresTokensThenRetries ==
    /\ last.ev = "resend"
          => /\ storage.token = last.data.token
             /\ storage.refreshToken = last.data.refreshToken
             /\ last.data.token = AccessToken(issued)
             /\ calls[last.call].pc = "sent"
             /\ calls[last.call].sends = 2
             /\ calls[last.call].auth = Bearer(last.data.token)
    /\ \A c \in CallIds :
          /\ calls[c].sends = 2 => calls[c].refreshed = "ok"
          /\ calls[c].pc = "refreshing" => calls[c].sends = 1

C5_Witness ==
    /\ last.ev = "resend"
    /\ storage.token = AccessToken(1)
    /\ calls[last.call].auth = Bearer(AccessToken(1))

\* C6: logout never fails: whatever the answer to POST /auth/logout, logout
\* resolves, the in-memory user and token are null and the default
\* Authorization header is removed.
C6_LogoutAlwaysResolvesAndClears ==
    (Settled /\ last.kind = "logout")
        => /\ last.result = "resolved"
           /\ user = NULL
           /\ token = NULL
           /\ defaultAuth = NULL

C6_Witness ==
    /\ Settled
    /\ last.kind = "logout"
    /\ last.outcome = "rejected"
    /\ last.error = <<"error", "noResponse">>
    /\ last.auth # NULL

\* C7: after logout completes none of the keys token, refreshToken and user
\* is in localStorage.
C7_LogoutRemovesAllKeys ==
    (Settled /\ last.kind = "logout") => storage = EmptyStorage

\* C8: when the startup verification is rejected the session is empty:
\* in-memory user and token are null, token and user are removed from
\* localStorage and the default Authorization header is removed.
C8_RejectedVerifyEmptiesSession ==
    (Settled /\ last.kind = "verify" /\ last.outcome = "rejected")
        => /\ user = NULL
           /\ token = NULL
           /\ storage.token = NULL
           /\ storage.user = NULL
           /\ defaultAuth = NULL

\* C9: after a successful login, or a registration answered with a token,
\* the stored token and user are the ones of the response, the default
\* Authorization header is Bearer of that token, the in-memory user and
\* token are set to them and the operation returns success.
C9_SessionStoredFromResponse ==
    SessionCreated
        => /\ storage.token = last.data.token
           /\ storage.user # NULL
           /\ JSONparse(storage.user) = last.data.user
           /\ defaultAuth = Bearer(last.data.token)
           /\ user = last.data.user
           /\ token = last.data.token
           /\ last.result = "success"

C9_Witness ==
    /\ SessionCreated
    /\ last.kind = "login"
    /\ last.data.user # StoredUser
    /\ token = AccessToken(1)

\* C10: a session created by login or registration has all three parts in
\* localStorage: access token, refresh token and user.
C10_CreatedSessionHasRefreshToken ==
    SessionCreated
        => /\ storage.token # NULL
           /\ storage.refreshToken # NULL
           /\ storage.user # NULL

\* C11: hasRole and hasAnyRole are predicates of the session: without
\* a session they are false for every role and every array of roles; with
\* a user of role r, hasRole(x) is true exactly when x = r and
\* hasAnyRole(rs) exactly when r occurs in rs.
C11_RolePredicates ==
    /\ last.ev = "hasRole"
          => /\ last.ret \in BOOLEAN
             /\ last.ret <=> (user # NULL /\ user[3] = last.args[1])
    /\ last.ev = "hasAnyRole"
          => /\ last.ret \in BOOLEAN
             /\ last.ret <=> (user # NULL /\ user[3] \in
                                 {last.args[1][i] : i \in DOMAIN last.args[1]})

C11_Witness ==
    /\ last.ev = "hasAnyRole"
    /\ last.ret = TRUE
    /\ Len(last.args[1]) = 2
    /\ last.args[1][1] # user[3]

\* C12: a call whose response is an error status other than 401 (400, 403,
\* 404, 429, 500) or that gets no response is sent once, starts no refresh
\* and is rejected with that error.
C12_OtherErrorsRejectWithoutRetry ==
    /\ (Settled /\ last.first \in {<<"error", "status">>, <<"error", "noResponse">>})
          => /\ last.sends = 1
             /\ last.refreshes = 0
             /\ last.refreshed = "none"
             /\ last.outcome = "rejected"
             /\ last.error = last.first
    /\ (Settled /\ last.error \in {<<"error", "status">>, <<"error", "noResponse">>})
          => last.outcome = "rejected"
    /\ \A c \in CallIds :
          InFlight(c) => calls[c].first \in {NULL, AuthExpired}

C12_Witness ==
    /\ Settled
    /\ last.kind = "request"
    /\ last.first = <<"error", "status">>
    /\ last.outcome = "rejected"
    /\ storage.refreshToken # NULL

\* C13: a request sent while localStorage holds a token carries
\* Authorization: Bearer <the token stored at that moment>, on a first send
\* and on the re-send after a refresh.
C13_SentWithStoredToken ==
    (last.ev \in {"send", "resend"} /\ storage.token # NULL)
        => /\ last.auth = Bearer(storage.token)
           /\ calls[last.call].auth = Bearer(storage.token)

C13_Witness ==
    /\ last.ev = "send"
    /\ last.kind = "request"
    /\ storage.token # NULL
    /\ defaultAuth = NULL
    /\ last.auth = Bearer(storage.token)

\* the holder is unauthenticated: no user, no token, no default header
Unauthenticated ==
    /\ user = NULL
    /\ token = NULL
    /\ defaultAuth = NULL

\* C14: after a refresh that failed for good the session is destroyed and
\* the holder is unauthenticated (in-memory user and token null, default
\* Authorization header removed), on the interceptor path and on the
\* path of the holder's refreshToken.
C14_RefreshFailureUnauthenticates ==
    /\ (Settled /\ last.refreshed = "failed") => Unauthenticated
    /\ (Settled /\ last.kind = "refreshToken" /\ last.outcome = "rejected")
          => Unauthenticated

\* a step taken by the interceptors alone: the refresh request is sent, its
\* answer is handled and the original call re-sent, or a call of the domain
\* call groups settles (no operation of the holder continues)
InterceptorStep ==
    \/ last'.ev \in {"refresh", "resend"}
    \/ last'.ev = "settle" /\ last'.kind = "request"

\* C15: the default Authorization header and the session are written only
\* by the operations of the holder; the interceptors of the client read
\* them and never write them.
C15_InterceptorsOnlyRead ==
    [][InterceptorStep => (defaultAuth' = defaultAuth /\ storage' = storage)]_vars

\* no operation is in progress: startup has finished, no call is in
\* flight, no document navigation is pending
Idle ==
    /\ initPc = "done"
    /\ ~reload
    /\ \A c \in CallIds : ~InFlight(c)

\* C16: whenever no operation is in progress the in-memory access token
\* equals the token of localStorage (both absent, or the same value).
C16_MemoryTokenMatchesStorage ==
    Idle => token = storage.token

\* the refresh requests in flight: one per call suspended in its refresh
RefreshInFlight ==
    Cardinality({c \in CallIds : calls[c].pc = "refreshing"})

\* C17 (as claimed): at any moment at most one refresh request is in flight
\* in the client, also when several calls received 401 concurrently.
C17_SingleFlight ==
    RefreshInFlight <= 1

\* C17 (amended): the refresh is single-flight per call: a call suspended in
\* its refresh has sent exactly one refresh request, with the stored
\* refreshToken, and has not been re-sent yet; calls that receive 401
\* concurrently each have their own refresh request in flight.
C17_OneRefreshPerCall ==
    \A c \in CallIds :
        calls[c].pc = "refreshing"
            => /\ calls[c].refreshes = 1
               /\ calls[c].sends = 1
               /\ calls[c].retry
               /\ calls[c].rt # NULL

C17_Witness ==
    /\ RefreshInFlight = 2
    /\ \E c, d \in CallIds :
          /\ c # d
          /\ calls[c].kind = "request" /\ calls[d].kind = "request"
          /\ calls[c].rt = calls[d].rt

\* initializeAuth has just sent GET /auth/verify and awaits the answer
VerifyPending ==
    /\ last.ev = "send"
    /\ last.kind = "verify"

C19_EveryCallEventuallySettles ==
    \A c \in CallIds : InFlight(c) ~> ~InFlight(c)

\* C20: for a response body {data: [...], pagination: {page, limit, total,
\* pages}} paginatedRequest returns an object with exactly the fields data
\* and pagination, equal to those two fields of the body.
C20_PaginatedUnwrapsBothFields ==
    last.ev = "paginatedRequest"
        => /\ last.ret[1] = "object"
           /\ DOMAIN last.ret[2] = {"data", "pagination"}
           /\ last.ret[2].data = last.args[1][2].data
           /\ last.ret[2].pagination = last.args[1][2].pagination
           /\ last.ret[2].pagination # Undefined

C20_Witness ==
    /\ last.ev = "paginatedRequest"
    /\ last.ret[2].data = Array(<<"r1", "r2">>)
    /\ last.ret[2].pagination = Object([page |-> 1, limit |-> 20, total |-> 2, pages |-> 1])
    /\ "success" \in DOMAIN last.args[1][2]

\* C21: for every paginated endpoint, the mock GET /api/requests included,
\* paginatedRequest returns {data, pagination} with both fields defined:
\* data is the list and pagination the pagination object of the response.
C21_NormalizedForEveryEndpoint ==
    last.ev = "paginatedRequest"
        => /\ DOMAIN last.ret[2] = {"data", "pagination"}
           /\ last.ret[2].data # Undefined
           /\ last.ret[2].pagination # Undefined
           /\ last.ret[2].data[1] = "array"
           /\ last.ret[2].pagination[1] = "object"

\* C22: the progress values the callback of an upload receives over the
\* whole logical call, a re-send after 401 and refresh included, never
\* decrease; when the upload resolves the last value is the whole file, and
\* the resolved value carries no progress.
C22_UploadProgressMonotone ==
    /\ \A c \in CallIds :
          \A i \in 1..(Len(ProgressOf(c)) - 1) :
              ProgressOf(c)[i].loaded <= ProgressOf(c)[i + 1].loaded
    /\ (Settled /\ last.kind = "upload" /\ last.outcome = "resolved")
          => /\ ProgressOf(last.call) # <<>>
             /\ ProgressOf(last.call)[Len(ProgressOf(last.call))].loaded = MaxChunks
             /\ last.data = NoData

\* a login attempt ends in failure at this step
LoginFails ==
    /\ last'.ev = "settle"
    /\ last'.kind = "login"
    /\ last'.result = "failure"

\* C23: a login attempt that fails writes nothing: whatever the server
\* answers to POST /auth/login (401 included) and whatever localStorage held
\* before, the attempt's last step leaves localStorage and the default
\* Authorization header as they are, and no refresh done on behalf of the
\* attempt has stored tokens before.
C23_FailedLoginWritesNothing ==
    [][LoginFails => /\ storage' = storage
                     /\ defaultAuth' = defaultAuth
                     /\ last'.refreshed = "none"]_vars

\* C24: after a logout has completed and a login has then succeeded, a
\* refresh request triggered by a 401 never sends a refresh token that was
\* stored before the logout (only then does the token it stores belong to
\* the stored user).
C24_RefreshUsesOwnSessionToken ==
    (last.ev = "refresh" /\ user # NULL)
        => calls[last.call].rt # RefreshTokenValue(0)

\* once logout() has completed, the step that follows it
AfterLogout ==
    /\ last.ev = "settle"
    /\ last.kind = "logout"

\* C25: once logout() has completed, a step that is not a successful login
\* or registration leaves the stored token and the default Authorization
\* header absent, also when it is the completion of a refresh that an
\* earlier call's 401 started.
C25_LoggedOutStaysLoggedOut ==
    [][(AfterLogout /\ ~SessionCreated')
          => (storage'.token = NULL /\ defaultAuth' = NULL)]_vars

\* C26: a startup verification that is rejected after a login (or
\* registration) has succeeded in the meantime leaves that session in
\* place: localStorage still holds its token and user, and the default
\* Authorization header is still Bearer of its token.
C26_LateVerifyKeepsLogin ==
    (Settled /\ last.kind = "verify" /\ last.outcome = "rejected" /\ user # NULL)
        => /\ storage.token = token
           /\ storage.user = JSONstringify(user)
           /\ defaultAuth = Bearer(token)

\* C27: with a server that invalidates a used refresh token and two calls
\* that both received 401, once one refresh has succeeded the tokens it
\* stored stay in localStorage, the page is not sent to /login, and every
\* call that started a refresh is re-sent.
C27_UncoalescedRefreshesAreHarmless ==
    /\ issued >= 1
          => /\ storage.token = AccessToken(issued)
             /\ storage.refreshToken = RefreshTokenValue(issued)
             /\ href # "/login"
             /\ ~reload
    /\ (Settled /\ last.refreshes = 1) => last.sends = 2

\* the number of archives kept
KeptBackups == 7

\* C28: after a run of the backup script that reaches its end, ./backups
\* holds at most 7 *.tar.gz files; they are the most recently written of
\* those that were there, the archive of this run among them, and the
\* .sql, _uploads, _logs and _info files of this run are gone.
C28_BackupRetention ==
    [][last'.ev = "backup"
         => LET t == clock'
                had == TarGz(backups) \cup {Archive(t)}
                kept == TarGz(backups')
            IN /\ Cardinality(kept) <= KeptBackups
               /\ kept \subseteq had
               /\ Cardinality(kept) = KeptBackups \/ kept = had
               /\ \A f \in had \ kept : \A g \in kept : g.mtime > f.mtime
               /\ Archive(t) \in backups'
               /\ backups' \cap TempFiles(t) = {}
               /\ \A f \in backups' : f.name[1] = t => f = Archive(t)]_vars

C28_Witness ==
    /\ last.ev = "backup"
    /\ Cardinality(TarGz(backups)) = KeptBackups
    /\ Cardinality(last.ret) >= 2
    /\ Archive(clock) \in backups

\* the length the notification list never exceeds
MaxNotifications == 10

\* C29: after every 'notification' and 'new-request' event the Dashboard's
\* list has at most 10 entries, newest first; an event that adds an entry
\* puts it at the head, in front of the earlier entries, of which the
\* oldest is dropped when the list was full; a 'notification' event always
\* adds one.
C29_NotificationsBounded ==
    [][received' = received + 1
         => /\ Len(notifications') <= MaxNotifications
            /\ \A i \in 1..(Len(notifications') - 1) :
                  notifications'[i].at > notifications'[i + 1].at
            /\ last'.ev = "notification" => notifications' # notifications
            /\ notifications' # notifications
                  => /\ notifications'[1].at = received'
                     /\ Tail(notifications') =
                           IF Len(notifications) = MaxNotifications
                           THEN SubSeq(notifications, 1, MaxNotifications - 1)
                           ELSE notifications]_vars

C29_Witness ==
    /\ last.ev = "new-request"
    /\ Len(notifications) = MaxNotifications
    /\ received = MaxNotifications + 2
    /\ notifications[1] = Entry("new-request", received)
    /\ notifications[MaxNotifications].at = 3

\* C30: initializeAuth, login and register end with loading = false: after
\* initializeAuth with nothing persisted, after a verification that
\* succeeded or failed, and after a login or registration that succeeded
\* or failed (a failed refresh on the way included).
C30_LoadingReturnsToFalse ==
    /\ last.ev = "init" => (~loading /\ initPc = "done")
    /\ (Settled /\ last.kind \in {"verify", "login", "register"}) => ~loading
    /\ (Settled /\ last.kind = "verify") => initPc = "done"

C30_Witness ==
    /\ Settled
    /\ last.kind = "login"
    /\ last.result = "failure"
    /\ last.error = AuthExpired
    /\ initPc = "verifying"
    /\ ~loading

====
